---- MODULE Spec2Model ----
(***************************************************************************)
(* Model of the grades importer (main.py): key derivation, existing-key    *)
(* index, filter + append, and the full-sheet de-dup pass, run against a   *)
(* worksheet held by an external store.                                    *)
(*                                                                         *)
(* A Python str is a sequence of one-character strings, so that strip,     *)
(* split, lower, strptime and the lexicographic comparison of timestamps   *)
(* are computed and not assumed.  A dict is a function whose DOMAIN is the *)
(* set of its keys.  The worksheet is the list of rows get_all_values      *)
(* returns.                                                                *)
(***************************************************************************)
EXTENDS Integers, Sequences, FiniteSets, TLC

\* ------------------------------------------------------------ characters

\* The characters of the model's strings in code-point order.
AsciiOrder ==
    << " ", "-", "/",
       "0", "1", "2", "3", "4", "5", "6", "7", "8", "9", ":",
       "A", "B", "C", "D", "E", "F", "G", "H", "I", "J", "K", "L", "M",
       "N", "O", "P", "Q", "R", "S", "T", "U", "V", "W", "X", "Y", "Z",
       "a", "b", "c", "d", "e", "f", "g", "h", "i", "j", "k", "l", "m",
       "n", "o", "p", "q", "r", "s", "t", "u", "v", "w", "x", "y", "z" >>

Ord(c) ==
    CHOOSE i \in 1..Len(AsciiOrder) : AsciiOrder[i] = c

Digits ==
    <<"0", "1", "2", "3", "4", "5", "6", "7", "8", "9">>

IsDigit(c) ==
    \E i \in 1..Len(Digits) : Digits[i] = c

DigitVal(c) ==
    (CHOOSE i \in 1..Len(Digits) : Digits[i] = c) - 1

IsSpace(c) ==
    c = " "

IsUpper(c) ==
    Ord(c) >= Ord("A") /\ Ord(c) <= Ord("Z")

\* str.lower() on one character
LowerChar(c) ==
    IF IsUpper(c) THEN AsciiOrder[Ord(c) - Ord("A") + Ord("a")] ELSE c

\* str.lower()
Lower(s) ==
    [i \in 1..Len(s) |-> LowerChar(s[i])]

\* Python's s1 > s2 on str: lexicographic by code point, a proper prefix is smaller
RECURSIVE StrGreater(_, _)
StrGreater(a, b) ==
    IF a = <<>> THEN FALSE
    ELSE IF b = <<>> THEN TRUE
    ELSE IF Head(a) = Head(b) THEN StrGreater(Tail(a), Tail(b))
    ELSE Ord(Head(a)) > Ord(Head(b))

\* str.strip()
RECURSIVE LStrip(_)
LStrip(s) ==
    IF s # <<>> /\ IsSpace(Head(s)) THEN LStrip(Tail(s)) ELSE s

RECURSIVE RStrip(_)
RStrip(s) ==
    IF s # <<>> /\ IsSpace(s[Len(s)]) THEN RStrip(SubSeq(s, 1, Len(s) - 1)) ELSE s

Strip(s) ==
    RStrip(LStrip(s))

\* str.split(): the maximal runs of non-whitespace characters
RECURSIVE SplitWs(_, _)
SplitWs(s, cur) ==
    IF s = <<>> THEN (IF cur = <<>> THEN <<>> ELSE <<cur>>)
    ELSE IF IsSpace(Head(s))
         THEN (IF cur = <<>> THEN <<>> ELSE <<cur>>) \o SplitWs(Tail(s), <<>>)
         ELSE SplitWs(Tail(s), Append(cur, Head(s)))

\* str.split(sep) for a one-character separator: empty fields are kept
RECURSIVE SplitOn(_, _, _)
SplitOn(s, sep, cur) ==
    IF s = <<>> THEN <<cur>>
    ELSE IF Head(s) = sep
         THEN <<cur>> \o SplitOn(Tail(s), sep, <<>>)
         ELSE SplitOn(Tail(s), sep, Append(cur, Head(s)))

\* " ".join(words)
RECURSIVE JoinSp(_)
JoinSp(words) ==
    IF words = <<>> THEN <<>>
    ELSE IF Len(words) = 1 THEN words[1]
    ELSE words[1] \o <<" ">> \o JoinSp(Tail(words))

\* ------------------------------------------------------------ schema

HEADERS ==
    << "ImportedAt", "Student", "Period", "Course", "Teacher",
       "DueDate", "AssignedDate", "Assignment", "PtsPossible",
       "Score", "Pct", "Status", "Comments", "SourceURL" >>

\* The text of each column name, as it stands in a header cell.
NameText ==
    [ ImportedAt   |-> <<"I","m","p","o","r","t","e","d","A","t">>,
      Student      |-> <<"S","t","u","d","e","n","t">>,
      Period       |-> <<"P","e","r","i","o","d">>,
      Course       |-> <<"C","o","u","r","s","e">>,
      Teacher      |-> <<"T","e","a","c","h","e","r">>,
      DueDate      |-> <<"D","u","e","D","a","t","e">>,
      AssignedDate |-> <<"A","s","s","i","g","n","e","d","D","a","t","e">>,
      Assignment   |-> <<"A","s","s","i","g","n","m","e","n","t">>,
      PtsPossible  |-> <<"P","t","s","P","o","s","s","i","b","l","e">>,
      Score        |-> <<"S","c","o","r","e">>,
      Pct          |-> <<"P","c","t">>,
      Status       |-> <<"S","t","a","t","u","s">>,
      Comments     |-> <<"C","o","m","m","e","n","t","s">>,
      SourceURL    |-> <<"S","o","u","r","c","e","U","R","L">> ]

\* dict.get(name, "")
DictGet(d, name) ==
    IF name \in DOMAIN d THEN d[name] ELSE <<>>

\* ------------------------------------------------------------ normalisers

\* _norm_text without the lower()
NormTextKeepCase(val) ==
    JoinSp(SplitWs(Strip(val), <<>>))

\* _norm_text: strip, collapse whitespace, lowercase
NormText(val) ==
    Lower(JoinSp(SplitWs(Strip(val), <<>>)))

\* ---- datetime.strptime / strftime, for the four formats _norm_date tries

AllDigits(f) ==
    \A i \in 1..Len(f) : IsDigit(f[i])

RECURSIVE NumVal(_)
NumVal(f) ==
    IF f = <<>> THEN 0 ELSE 10 * NumVal(SubSeq(f, 1, Len(f) - 1)) + DigitVal(f[Len(f)])

\* %m : 1[0-2] | 0[1-9] | [1-9]
MonthField(f) ==
    /\ Len(f) \in {1, 2}
    /\ AllDigits(f)
    /\ NumVal(f) \in 1..12

\* %d : 3[01] | [12]\d | 0[1-9] | [1-9] | " "[1-9]
DayField(f) ==
    \/ /\ Len(f) \in {1, 2}
       /\ AllDigits(f)
       /\ NumVal(f) \in 1..31
    \/ /\ Len(f) = 2
       /\ f[1] = " "
       /\ IsDigit(f[2])
       /\ f[2] # "0"

DayVal(f) ==
    IF f[1] = " " THEN DigitVal(f[2]) ELSE NumVal(f)

\* %Y : \d\d\d\d
Year4Field(f) ==
    Len(f) = 4 /\ AllDigits(f)

\* %y : \d\d, 00-68 -> 2000-2068 and 69-99 -> 1969-1999
Year2Field(f) ==
    Len(f) = 2 /\ AllDigits(f)

Year2Val(f) ==
    IF NumVal(f) < 69 THEN 2000 + NumVal(f) ELSE 1900 + NumVal(f)

IsLeap(y) ==
    (y % 4 = 0 /\ y % 100 # 0) \/ y % 400 = 0

DaysInMonth(y, m) ==
    IF m = 2 THEN (IF IsLeap(y) THEN 29 ELSE 28)
    ELSE IF m \in {4, 6, 9, 11} THEN 30 ELSE 31

\* the date the datetime constructor accepts: year >= 1 and the day exists
ValidDate(y, m, d) ==
    y >= 1 /\ m \in 1..12 /\ d >= 1 /\ d <= DaysInMonth(y, m)

\* n written with w digits, zero padded
RECURSIVE PadNum(_, _)
PadNum(n, w) ==
    IF w = 0 THEN <<>> ELSE PadNum(n \div 10, w - 1) \o <<Digits[(n % 10) + 1]>>

\* dt.strftime("%Y-%m-%d")
FormatYmd(y, m, d) ==
    PadNum(y, 4) \o <<"-">> \o PadNum(m, 2) \o <<"-">> \o PadNum(d, 2)

NoDate ==
    [ok |-> FALSE, y |-> 0, m |-> 0, d |-> 0]

\* the datetime built from the parsed numbers, if that date exists
MakeDate(y, m, d) ==
    IF ValidDate(y, m, d) THEN [ok |-> TRUE, y |-> y, m |-> m, d |-> d] ELSE NoDate

\* the three fields of a format against their directives
ParseFields(yf, mf, df, order) ==
    IF (IF order = "mdy" THEN Year2Field(yf) ELSE Year4Field(yf))
       /\ MonthField(mf) /\ DayField(df)
    THEN MakeDate(IF order = "mdy" THEN Year2Val(yf) ELSE NumVal(yf), NumVal(mf), DayVal(df))
    ELSE NoDate

ParseSplit(f, order) ==
    IF Len(f) # 3 THEN NoDate
    ELSE IF order = "Ymd" THEN ParseFields(f[1], f[2], f[3], order)
    ELSE ParseFields(f[3], f[1], f[2], order)

\* strptime(s, fmt) for fmt = A sep B sep C; order is "mdY", "mdy" or "Ymd".
\* The whole of s has to match, and the date has to exist.
Strptime(s, sep, order) ==
    ParseSplit(SplitOn(s, sep, <<>>), order)

\* "%m/%d/%Y", "%m/%d/%y", "%Y-%m-%d", "%Y/%m/%d", in the order they are tried
DateFormats ==
    << [sep |-> "/", order |-> "mdY"],
       [sep |-> "/", order |-> "mdy"],
       [sep |-> "-", order |-> "Ymd"],
       [sep |-> "/", order |-> "Ymd"] >>

\* the loop over the formats: the first that parses wins, else the fallback
RECURSIVE TryFormats(_, _)
FirstParsed(p, s, n) ==
    IF p.ok THEN FormatYmd(p.y, p.m, p.d) ELSE TryFormats(s, n + 1)

TryFormats(s, n) ==
    IF n > Len(DateFormats) THEN Lower(JoinSp(SplitWs(s, <<>>)))
    ELSE FirstParsed(Strptime(s, DateFormats[n].sep, DateFormats[n].order), s, n)

\* the sentinels _norm_date keeps as they are
DateSentinels ==
    { <<"m","i","s","s","i","n","g">>,
      <<"n","/","a">>,
      <<"n","a">>,
      <<"n","o","t"," ","a","v","a","i","l","a","b","l","e">> }

NormDateStripped(s) ==
    IF s = <<>> \/ Lower(s) \in DateSentinels THEN Lower(s) ELSE TryFormats(s, 1)

\* _norm_date
NormDate(val) ==
    IF val = <<>> THEN <<>> ELSE NormDateStripped(Strip(val))

\* ------------------------------------------------------------ dedup key

\* key_from_row: Student + Period + Course + DueDate
key_from_row(row) ==
    << NormText(DictGet(row, "Student")),
       NormText(DictGet(row, "Period")),
       NormText(DictGet(row, "Course")),
       NormDate(DictGet(row, "DueDate")) >>

\* ------------------------------------------------------------ sheet helpers

Range(f) ==
    {f[i] : i \in DOMAIN f}

HeaderNames ==
    Range(HEADERS)

\* {name: header.index(name) for name in HEADERS if name in header}
\* (positions count from 1 here; a name that is absent is not in the DOMAIN)
ColIdx(header) ==
    [name \in {n \in HeaderNames : \E i \in 1..Len(header) : header[i] = NameText[n]}
        |-> CHOOSE i \in 1..Len(header) :
                /\ header[i] = NameText[name]
                /\ \A j \in 1..(i - 1) : header[j] # NameText[name]]

\* col(name) / get(row, name): the cell under the named column, "" for a
\* column the header lacks or a row that is too short
Cell(idx, row, name) ==
    IF name \in DOMAIN idx /\ idx[name] <= Len(row) THEN row[idx[name]] ELSE <<>>

\* the dict both readers hand to key_from_row
RowObj(idx, row) ==
    [name \in {"Student", "Period", "Course", "DueDate"} |-> Cell(idx, row, name)]

\* get_existing_keys, on the values the sheet returns
get_existing_keys(values) ==
    IF values = <<>> THEN {}
    ELSE LET idx == ColIdx(values[1])
         IN  {key_from_row(RowObj(idx, values[i])) : i \in 2..Len(values)}

\* rows_to_matrix: each dict in HEADERS order, a missing key gives ""
rows_to_matrix(rs) ==
    [i \in 1..Len(rs) |-> [j \in 1..Len(HEADERS) |-> DictGet(rs[i], HEADERS[j])]]

\* main, line 171 and 173-174: keep a non-empty ImportedAt, else stamp it;
\* then setdefault every header
StampRow(r, ts) ==
    [name \in (DOMAIN r) \cup HeaderNames |->
        IF name = "ImportedAt"
        THEN (IF DictGet(r, "ImportedAt") # <<>> THEN r["ImportedAt"] ELSE ts)
        ELSE DictGet(r, name)]

StampRows(rs, ts) ==
    [i \in 1..Len(rs) |-> StampRow(rs[i], ts)]

\* the filter as it would be with the record's key left un-normalised
RawKey(r) ==
    << DictGet(r, "Student"), DictGet(r, "Period"), DictGet(r, "Course"), DictGet(r, "DueDate") >>

RECURSIVE FilterNewRaw(_, _)
FilterNewRaw(rs, keys) ==
    IF rs = <<>> THEN <<>>
    ELSE IF RawKey(Head(rs)) \in keys
         THEN FilterNewRaw(Tail(rs), keys)
         ELSE <<Head(rs)>> \o FilterNewRaw(Tail(rs), keys)

\* to_add = [r for r in rows if key_from_row(r) not in existing]
RECURSIVE FilterNew(_, _)
FilterNew(rs, keys) ==
    IF rs = <<>> THEN <<>>
    ELSE IF key_from_row(Head(rs)) \in keys
         THEN FilterNew(Tail(rs), keys)
         ELSE <<Head(rs)>> \o FilterNew(Tail(rs), keys)

\* ------------------------------------------------------------ de-dup pass

\* position of key k in the winners dict (insertion order), 0 if absent
WinnerPos(winners, k) ==
    IF \E j \in 1..Len(winners) : winners[j].k = k
    THEN CHOOSE j \in 1..Len(winners) : winners[j].k = k
    ELSE 0

\* the loop body as it would be if a newer row were added to winners beside
\* the older one instead of replacing it
ScanStepAtKeepBoth(acc, idx, row_vals, k, j) ==
    IF j = 0
    THEN [acc EXCEPT !.winners = Append(@, [k |-> k, row |-> row_vals])]
    ELSE IF StrGreater(Cell(idx, row_vals, "ImportedAt"),
                       Cell(idx, acc.winners[j].row, "ImportedAt"))
    THEN [acc EXCEPT !.winners = Append(@, [k |-> k, row |-> row_vals])]
    ELSE [acc EXCEPT !.skipped = @ + 1]

\* the loop body as it would be if a row with an equal ImportedAt replaced
\* the winner as well (>= in place of >)
ScanStepAtLaterOnTie(acc, idx, row_vals, k, j) ==
    IF j = 0
    THEN [acc EXCEPT !.winners = Append(@, [k |-> k, row |-> row_vals])]
    ELSE IF StrGreater(Cell(idx, acc.winners[j].row, "ImportedAt"),
                       Cell(idx, row_vals, "ImportedAt"))
    THEN [acc EXCEPT !.skipped = @ + 1]
    ELSE [acc EXCEPT !.winners[j].row = row_vals]

\* one iteration of the loop over values[1:], for the row's key k and the
\* position j of k in winners
ScanStepAt(acc, idx, row_vals, k, j) ==
    IF j = 0
    THEN [acc EXCEPT !.winners = Append(@, [k |-> k, row |-> row_vals])]
    ELSE IF acc.winners[j].row = <<>>
    THEN [acc EXCEPT !.winners[j].row = row_vals]
    ELSE IF StrGreater(Cell(idx, row_vals, "ImportedAt"),
                       Cell(idx, acc.winners[j].row, "ImportedAt"))
    THEN [acc EXCEPT !.winners[j].row = row_vals]
    ELSE [acc EXCEPT !.skipped = @ + 1]

ScanStepKey(acc, idx, row_vals, k) ==
    ScanStepAt(acc, idx, row_vals, k, WinnerPos(acc.winners, k))

ScanStep(acc, idx, row_vals) ==
    ScanStepKey(acc, idx, row_vals, key_from_row(RowObj(idx, row_vals)))

RECURSIVE ScanRows(_, _, _)
ScanRows(acc, idx, rest) ==
    IF rest = <<>> THEN acc
    ELSE ScanRows(ScanStep(acc, idx, Head(rest)), idx, Tail(rest))

\* sorted(list(winners.values()), key=ts, reverse=True): descending, and
\* rows with equal ImportedAt keep their order
RECURSIVE InsertDesc(_, _, _)
InsertDesc(sorted, idx, r) ==
    IF sorted = <<>> THEN <<r>>
    ELSE IF StrGreater(Cell(idx, r, "ImportedAt"), Cell(idx, Head(sorted), "ImportedAt"))
         THEN <<r>> \o sorted
         ELSE <<Head(sorted)>> \o InsertDesc(Tail(sorted), idx, r)

RECURSIVE SortDesc(_, _, _)
SortDesc(sorted, idx, rest) ==
    IF rest = <<>> THEN sorted
    ELSE SortDesc(InsertDesc(sorted, idx, Head(rest)), idx, Tail(rest))

WinnerRows(winners) ==
    [j \in 1..Len(winners) |-> winners[j].row]

PlanOf(acc, idx) ==
    [rows |-> SortDesc(<<>>, idx, WinnerRows(acc.winners)), skipped |-> acc.skipped]

PlanWith(idx, data) ==
    PlanOf(ScanRows([winners |-> <<>>, skipped |-> 0], idx, data), idx)

\* the in-memory part of dedupe_entire_sheet for a non-empty sheet:
\* the rows to write back and the count to return
DedupePlan(values) ==
    PlanWith(ColIdx(values[1]), Tail(values))

\* ------------------------------------------------------------ inputs

\* bounds of the model
MaxRows ==
    2

MaxBatch ==
    2

\* now_iso_seconds() at clock reading n: "2025-01-01 00:00:0n"
now_iso_seconds(n) ==
    <<"2","0","2","5","-","0","1","-","0","1"," ","0","0",":","0","0",":","0", Digits[n + 1]>>

\* the columns the extractor fills (scraper.py, OUR_COLS)
OUR_COLS ==
    { "Student", "Period", "Course", "Teacher", "DueDate", "AssignedDate",
      "Assignment", "PtsPossible", "Score", "Pct", "Status", "Comments", "SourceURL" }

Scraped(student, period, course, due, assignment, score) ==
    [name \in OUR_COLS |->
        CASE name = "Student"    -> student
          [] name = "Period"     -> period
          [] name = "Course"     -> course
          [] name = "DueDate"    -> due
          [] name = "Assignment" -> assignment
          [] name = "Score"      -> score
          [] OTHER               -> <<>>]

WithImportedAt(r, ts) ==
    [name \in (DOMAIN r) \cup {"ImportedAt"} |-> IF name = "ImportedAt" THEN ts ELSE r[name]]

TxtJo == <<"J","o">>
TxtJoLoose == <<" ","j","o"," ">>
TxtMath == <<"M","a","t","h">>
TxtMathLower == <<"m","a","t","h">>
TxtArt == <<"A","r","t">>
TxtHW1 == <<"H","W","1">>
TxtHW2 == <<"H","W","2">>
DateUS == <<"9","/","5","/","2","0","2","4">>
DateISO == <<"2","0","2","4","-","0","9","-","0","5">>

\* what the extractor may yield: one assignment, a second assignment of the
\* same course and due date, a record that carries an ImportedAt, and the
\* first assignment carrying an ImportedAt
RecMath == Scraped(TxtJo, <<"1">>, TxtMath, DateUS, TxtHW1, <<"9">>)
RecMathHW2 == Scraped(TxtJo, <<"1">>, TxtMath, DateUS, TxtHW2, <<"8">>)
RecArtStamped == WithImportedAt(Scraped(TxtJo, <<"1">>, TxtArt, DateUS, TxtHW1, <<"9">>),
                                now_iso_seconds(9))

RecMathStamped == WithImportedAt(RecMath, now_iso_seconds(9))

RecordPool ==
    {RecMath, RecMathHW2, RecArtStamped, RecMathStamped}

\* rows earlier imports left in the sheet: the first assignment, once as an
\* older variant of the portal wrote it (spelling, date format) and once as
\* RecMath has it, with an older score each
OldMath1 == WithImportedAt(Scraped(TxtJoLoose, <<"1">>, TxtMathLower, DateISO, TxtHW1, <<"5">>),
                           now_iso_seconds(1))
OldMath2 == WithImportedAt(Scraped(TxtJo, <<"1">>, TxtMath, DateUS, TxtHW1, <<"6">>),
                           now_iso_seconds(2))

OldRowPool ==
    {OldMath1, OldMath2}

SeqsUpTo(S, n) ==
    UNION {[1..k -> S] : k \in 0..n}

Batches ==
    SeqsUpTo(RecordPool, MaxBatch)

\* column layouts a worksheet may have: the canonical one, Student and
\* Course moved by hand, and a sheet that lacks the Period column
LayoutCanonical ==
    HEADERS

LayoutReordered ==
    [j \in 1..Len(HEADERS) |->
        IF HEADERS[j] = "Student" THEN "Course"
        ELSE IF HEADERS[j] = "Course" THEN "Student"
        ELSE HEADERS[j]]

LayoutNoPeriod ==
    SelectSeq(HEADERS, LAMBDA n : n # "Period")

Layouts ==
    {LayoutCanonical, LayoutReordered, LayoutNoPeriod}

HeaderRow(layout) ==
    [j \in 1..Len(layout) |-> NameText[layout[j]]]

LaidOut(r, layout) ==
    [j \in 1..Len(layout) |-> DictGet(r, layout[j])]

\* a worksheet with a header row and the old rows under their columns
SheetOf(layout, olds) ==
    <<HeaderRow(layout)>> \o [i \in 1..Len(olds) |-> LaidOut(olds[i], layout)]

InitialSheets ==
    {SheetOf(l, olds) : l \in Layouts, olds \in SeqsUpTo(OldRowPool, MaxRows)}

\* ------------------------------------------------------------ state

VARIABLES
    sheet,          \* the worksheet's rows, as get_all_values returns them
    wsExists,       \* whether the "Assignments" worksheet exists
    pc,             \* where main is
    run,            \* "first" or "second" run of the job
    clock,          \* the wall clock, in seconds
    batch,          \* what run_scrape returned
    rows,           \* main's rows
    imported_at,    \* main's imported_at
    existing,       \* main's existing
    to_add,         \* main's to_add
    values,         \* the values local of get_existing_keys / dedupe_entire_sheet
    deduped_rows,   \* dedupe_entire_sheet's deduped_rows
    skipped,        \* dedupe_entire_sheet's skipped
    legacy_skipped, \* main's legacy_skipped
    writes,         \* the storage mutations dedupe_entire_sheet issued in this run
    summary,        \* the printed counts, <<>> before the print
    failedAt,       \* the call that raised, "" if none
    firstSheet,     \* the sheet as the first run left it
    other           \* the locals of a second job instance running at the same time

vars ==
    << sheet, wsExists, pc, run, clock, batch, rows, imported_at, existing, to_add,
       values, deduped_rows, skipped, legacy_skipped, writes, summary, failedAt,
       firstSheet, other >>

StartClock ==
    3

\* the locals of a job instance that has not been started
NoOther ==
    [ pc |-> "idle", rows |-> <<>>, imported_at |-> <<>>, existing |-> {},
      to_add |-> <<>>, values |-> <<>>, deduped_rows |-> <<>>, skipped |-> 0,
      legacy_skipped |-> 0, writes |-> {}, summary |-> <<>>,
      lateAppend |-> FALSE, readBoth |-> FALSE ]

Init ==
    /\ \/ /\ wsExists = TRUE
          /\ sheet \in InitialSheets \cup {<<>>}
       \/ /\ wsExists = FALSE
          /\ sheet = <<>>
    /\ pc = "scrape"
    /\ run = "first"
    /\ clock = StartClock
    /\ batch = <<>>
    /\ rows = <<>>
    /\ imported_at = <<>>
    /\ existing = {}
    /\ to_add = <<>>
    /\ values = <<>>
    /\ deduped_rows = <<>>
    /\ skipped = 0
    /\ legacy_skipped = 0
    /\ writes = {}
    /\ summary = <<>>
    /\ failedAt = ""
    /\ firstSheet = <<>>
    /\ other = NoOther

\* ------------------------------------------------------------ main

\* rows = run_scrape(...): main takes the result to be a list of dicts (the
\* comment on lines 145-146); the second run scrapes the same records.
\* scraper.py's run_scrape as it stands returns a pair (rows, metrics), with
\* which the loop on line 170 would raise before the sheet is ever opened.
Scrape ==
    /\ pc = "scrape"
    /\ \E b \in Batches :
          /\ run = "second" => b = batch
          /\ batch' = b
          /\ rows' = b
    /\ pc' = "stamp"
    /\ UNCHANGED << sheet, wsExists, run, clock, imported_at, existing, to_add, values,
                    deduped_rows, skipped, legacy_skipped, writes, summary, failedAt,
                    firstSheet, other >>

\* imported_at = now_iso_seconds(); stamp and complete every row
Stamp ==
    /\ pc = "stamp"
    /\ imported_at' = now_iso_seconds(clock)
    /\ rows' = StampRows(rows, now_iso_seconds(clock))
    /\ pc' = "open"
    /\ UNCHANGED << sheet, wsExists, run, clock, batch, existing, to_add, values,
                    deduped_rows, skipped, legacy_skipped, writes, summary, failedAt,
                    firstSheet, other >>

\* ensure_worksheet: an existing worksheet is taken as it is, a missing one
\* is created with the header row
ensure_worksheet ==
    /\ pc = "open"
    /\ IF wsExists
       THEN UNCHANGED << sheet, wsExists >>
       ELSE /\ wsExists' = TRUE
            /\ sheet' = <<HeaderRow(HEADERS)>>
    /\ pc' = "keys"
    /\ UNCHANGED << run, clock, batch, rows, imported_at, existing, to_add, values,
                    deduped_rows, skipped, legacy_skipped, writes, summary, failedAt,
                    firstSheet, other >>

\* existing = get_existing_keys(ws)
ReadExisting ==
    /\ pc = "keys"
    /\ values' = sheet
    /\ existing' = get_existing_keys(sheet)
    /\ pc' = "append"
    /\ UNCHANGED << sheet, wsExists, run, clock, batch, rows, imported_at, to_add,
                    deduped_rows, skipped, legacy_skipped, writes, summary, failedAt,
                    firstSheet, other >>

\* an append that writes from row 2 down instead of below the last row
append_rows_at_row2(sh, rs) ==
    IF sh = <<>> THEN rs ELSE <<sh[1]>> \o rs

\* ws.append_rows(rs) on the rows sh: the new rows go below the last row
append_rows(sh, rs) ==
    sh \o rs

\* to_add = [...]; if to_add: ws.append_rows(rows_to_matrix(to_add))
FilterAppend ==
    /\ pc = "append"
    /\ to_add' = FilterNew(rows, existing)
    /\ sheet' = IF to_add' # <<>> THEN append_rows(sheet, rows_to_matrix(to_add')) ELSE sheet
    /\ pc' = "dedupe"
    /\ UNCHANGED << wsExists, run, clock, batch, rows, imported_at, existing, values,
                    deduped_rows, skipped, legacy_skipped, writes, summary, failedAt,
                    firstSheet, other >>

\* dedupe_entire_sheet up to the clear: read, return 0 on an empty sheet,
\* else pick the winners and sort them
DedupeRead ==
    /\ pc = "dedupe"
    /\ values' = sheet
    /\ IF sheet = <<>>
       THEN /\ legacy_skipped' = 0
            /\ pc' = "print"
            /\ UNCHANGED << deduped_rows, skipped >>
       ELSE /\ \E plan \in {DedupePlan(sheet)} :
                  /\ deduped_rows' = plan.rows
                  /\ skipped' = plan.skipped
            /\ pc' = "clear"
            /\ UNCHANGED legacy_skipped
    /\ UNCHANGED << sheet, wsExists, run, clock, batch, rows, imported_at, existing,
                    to_add, writes, summary, failedAt, firstSheet, other >>

\* ws.clear()
DedupeClear ==
    /\ pc = "clear"
    /\ sheet' = <<>>
    /\ writes' = writes \cup {"clear"}
    /\ pc' = "update"
    /\ UNCHANGED << wsExists, run, clock, batch, rows, imported_at, existing, to_add,
                    values, deduped_rows, skipped, legacy_skipped, summary, failedAt,
                    firstSheet, other >>

\* ws.update("1:1", [header]) on the rows sh: the cells of the header
\* replace those of row 1, the rows below stay
UpdateRow1(sh, header) ==
    IF sh = <<>> THEN <<header>>
    ELSE << [j \in 1..(IF Len(header) >= Len(sh[1]) THEN Len(header) ELSE Len(sh[1])) |->
                IF j <= Len(header) THEN header[j] ELSE sh[1][j]] >> \o Tail(sh)

\* ws.update("1:1", [header]); with no rows to write the function returns here
DedupeUpdate ==
    /\ pc = "update"
    /\ sheet' = UpdateRow1(sheet, values[1])
    /\ writes' = writes \cup {"update"}
    /\ IF deduped_rows # <<>>
       THEN pc' = "write" /\ UNCHANGED legacy_skipped
       ELSE pc' = "print" /\ legacy_skipped' = skipped
    /\ UNCHANGED << wsExists, run, clock, batch, rows, imported_at, existing, to_add,
                    values, deduped_rows, skipped, summary, failedAt, firstSheet, other >>

\* ws.append_rows(deduped_rows); return skipped
DedupeWrite ==
    /\ pc = "write"
    /\ sheet' = append_rows(sheet, deduped_rows)
    /\ writes' = writes \cup {"append_rows"}
    /\ legacy_skipped' = skipped
    /\ pc' = "print"
    /\ UNCHANGED << wsExists, run, clock, batch, rows, imported_at, existing, to_add,
                    values, deduped_rows, skipped, summary, failedAt, firstSheet, other >>

\* a storage call raises: nothing catches it, main ends.  The calls are the
\* read of get_existing_keys, the append of the new rows (made only when
\* there are rows to add), and the read, clear, update and append_rows of the
\* de-dup pass.  Each call is taken to be all-or-nothing: the call that
\* raises has not changed the sheet.
StorageFail ==
    /\ pc \in {"keys", "append", "dedupe", "clear", "update", "write"}
    /\ pc = "append" => FilterNew(rows, existing) # <<>>
    /\ failedAt' = pc
    /\ pc' = "aborted"
    /\ UNCHANGED << sheet, wsExists, run, clock, batch, rows, imported_at, existing,
                    to_add, values, deduped_rows, skipped, legacy_skipped, writes,
                    summary, firstSheet, other >>

\* main ends before it reaches the sheet: an environment variable is missing
\* or run_scrape raises (at "scrape"), the credentials are not JSON or the
\* spreadsheet cannot be opened (at "open")
FatalExit ==
    /\ pc \in {"scrape", "open"}
    /\ failedAt' = pc
    /\ pc' = "aborted"
    /\ UNCHANGED << sheet, wsExists, run, clock, batch, rows, imported_at, existing,
                    to_add, values, deduped_rows, skipped, legacy_skipped, writes,
                    summary, firstSheet, other >>

\* the print at the end of main
PrintSummary ==
    /\ pc = "print"
    /\ summary' = [imported |-> Len(to_add),
                   skipped  |-> Len(rows) - Len(to_add),
                   removed  |-> legacy_skipped]
    /\ pc' = "done"
    /\ UNCHANGED << sheet, wsExists, run, clock, batch, rows, imported_at, existing,
                    to_add, values, deduped_rows, skipped, legacy_skipped, writes,
                    failedAt, firstSheet, other >>

\* the scheduler starts the job again, a second later
NextRun ==
    /\ pc = "done"
    /\ run = "first"
    /\ run' = "second"
    /\ firstSheet' = sheet
    /\ clock' = clock + 1
    /\ pc' = "scrape"
    /\ rows' = <<>>
    /\ imported_at' = <<>>
    /\ existing' = {}
    /\ to_add' = <<>>
    /\ values' = <<>>
    /\ deduped_rows' = <<>>
    /\ skipped' = 0
    /\ legacy_skipped' = 0
    /\ writes' = {}
    /\ summary' = <<>>
    /\ UNCHANGED << sheet, wsExists, batch, failedAt, other >>

Next ==
    \/ Scrape
    \/ Stamp
    \/ ensure_worksheet
    \/ ReadExisting
    \/ FilterAppend
    \/ DedupeRead
    \/ DedupeClear
    \/ DedupeUpdate
    \/ DedupeWrite
    \/ StorageFail
    \/ FatalExit
    \/ PrintSummary
    \/ NextRun

Spec ==
    Init /\ [][Next]_vars

\* ------------------------------------------------------------ two instances

\* The job started a second time while the first instance is still running:
\* the steps of main again, on the locals held in other, against the same
\* worksheet.  Nothing in main locks the sheet or orders the two instances.
\* Both have scraped the same records and opened the worksheet; the second
\* instance has taken its timestamp a second after the first.

\* what main has behind it at each position
PastAppend ==
    {"dedupe", "clear", "update", "write", "print", "done"}

PastRead ==
    {"clear", "update", "write", "print", "done"}

mainVars ==
    << wsExists, pc, run, clock, batch, rows, imported_at, existing, to_add, values,
       deduped_rows, skipped, legacy_skipped, writes, summary, failedAt, firstSheet >>

OtherReadExisting ==
    /\ other.pc = "keys"
    /\ other' = [other EXCEPT !.pc = "append",
                              !.values = sheet,
                              !.existing = get_existing_keys(sheet)]
    /\ UNCHANGED << sheet, mainVars >>

\* lateAppend notes whether the first instance had read the sheet for its
\* de-dup pass before this append
OtherFilterAppend ==
    /\ other.pc = "append"
    /\ \E add \in {FilterNew(other.rows, other.existing)} :
          /\ other' = [other EXCEPT !.pc = "dedupe",
                                    !.to_add = add,
                                    !.lateAppend = (pc \in PastRead)]
          /\ sheet' = IF add # <<>> THEN append_rows(sheet, rows_to_matrix(add)) ELSE sheet
    /\ UNCHANGED mainVars

\* readBoth notes whether the first instance had made its append before this
\* read
OtherDedupeRead ==
    /\ other.pc = "dedupe"
    /\ IF sheet = <<>>
       THEN other' = [other EXCEPT !.pc = "print", !.values = sheet,
                                   !.legacy_skipped = 0,
                                   !.readBoth = (pc \in PastAppend)]
       ELSE \E plan \in {DedupePlan(sheet)} :
               other' = [other EXCEPT !.pc = "clear", !.values = sheet,
                                      !.deduped_rows = plan.rows,
                                      !.skipped = plan.skipped,
                                      !.readBoth = (pc \in PastAppend)]
    /\ UNCHANGED << sheet, mainVars >>

OtherDedupeClear ==
    /\ other.pc = "clear"
    /\ sheet' = <<>>
    /\ other' = [other EXCEPT !.pc = "update", !.writes = @ \cup {"clear"}]
    /\ UNCHANGED mainVars

OtherDedupeUpdate ==
    /\ other.pc = "update"
    /\ sheet' = UpdateRow1(sheet, other.values[1])
    /\ other' = IF other.deduped_rows # <<>>
                THEN [other EXCEPT !.pc = "write", !.writes = @ \cup {"update"}]
                ELSE [other EXCEPT !.pc = "print", !.writes = @ \cup {"update"},
                                   !.legacy_skipped = other.skipped]
    /\ UNCHANGED mainVars

OtherDedupeWrite ==
    /\ other.pc = "write"
    /\ sheet' = append_rows(sheet, other.deduped_rows)
    /\ other' = [other EXCEPT !.pc = "print", !.writes = @ \cup {"append_rows"},
                              !.legacy_skipped = other.skipped]
    /\ UNCHANGED mainVars

OtherPrintSummary ==
    /\ other.pc = "print"
    /\ other' = [other EXCEPT !.pc = "done",
                              !.summary = [imported |-> Len(other.to_add),
                                           skipped  |-> Len(other.rows) - Len(other.to_add),
                                           removed  |-> other.legacy_skipped]]
    /\ UNCHANGED << sheet, mainVars >>

\* the most records the two instances have scraped
MaxConcBatch ==
    1

\* both instances about to read the existing keys, on a sheet with the
\* canonical header and no row or one row of an earlier import
ConcInit ==
    /\ sheet \in {SheetOf(LayoutCanonical, <<>>), SheetOf(LayoutCanonical, <<OldMath2>>)}
    /\ wsExists = TRUE
    /\ pc = "keys"
    /\ run = "first"
    /\ clock = StartClock
    /\ batch \in SeqsUpTo(RecordPool, MaxConcBatch)
    /\ rows = StampRows(batch, now_iso_seconds(clock))
    /\ imported_at = now_iso_seconds(clock)
    /\ existing = {}
    /\ to_add = <<>>
    /\ values = <<>>
    /\ deduped_rows = <<>>
    /\ skipped = 0
    /\ legacy_skipped = 0
    /\ writes = {}
    /\ summary = <<>>
    /\ failedAt = ""
    /\ firstSheet = <<>>
    /\ other = [NoOther EXCEPT !.pc = "keys",
                               !.rows = StampRows(batch, now_iso_seconds(clock + 1)),
                               !.imported_at = now_iso_seconds(clock + 1)]

ConcNext ==
    \/ ReadExisting
    \/ FilterAppend
    \/ DedupeRead
    \/ DedupeClear
    \/ DedupeUpdate
    \/ DedupeWrite
    \/ PrintSummary
    \/ OtherReadExisting
    \/ OtherFilterAppend
    \/ OtherDedupeRead
    \/ OtherDedupeClear
    \/ OtherDedupeUpdate
    \/ OtherDedupeWrite
    \/ OtherPrintSummary

SpecConc ==
    ConcInit /\ [][ConcNext]_vars

\* ------------------------------------------------------------ key_from_row alone

\* The key function applied to two records that cells or the extractor may
\* hold: one record spelt in two ways, or a record with a field left out and
\* the same record with that field empty.

MaxPad ==
    1

IsLower(c) ==
    Ord(c) >= Ord("a") /\ Ord(c) <= Ord("z")

UpperChar(c) ==
    IF IsLower(c) THEN AsciiOrder[Ord(c) - Ord("a") + Ord("A")] ELSE c

Blanks(n) ==
    [i \in 1..n |-> " "]

Cased(s, mode) ==
    [i \in 1..Len(s) |->
        IF mode = "upper" THEN UpperChar(s[i])
        ELSE IF mode = "lower" THEN LowerChar(s[i])
        ELSE s[i]]

\* the spellings of text s: in capitals, in small letters or as it is, with
\* up to MaxPad blanks before and after
Spellings(s) ==
    {Blanks(l) \o Cased(s, mode) \o Blanks(t) :
        l \in 0..MaxPad, t \in 0..MaxPad, mode \in {"asis", "upper", "lower"}}

TxtMrX == <<"M","r"," ","X">>

KeyTexts ==
    {TxtJo, TxtMrX}

TextKeyFields ==
    {"Student", "Period", "Course"}

KeyFields ==
    {"Student", "Period", "Course", "DueDate"}

WithField(r, f, v) ==
    [name \in (DOMAIN r) \cup {f} |-> IF name = f THEN v ELSE r[name]]

WithoutField(r, f) ==
    [name \in (DOMAIN r) \ {f} |-> r[name]]

\* two spellings of one text in one textual key field
SpellingPairs ==
    {<<WithField(RecMath, f, a), WithField(RecMath, f, b)>> :
        f \in TextKeyFields,
        a \in UNION {Spellings(s) : s \in KeyTexts},
        b \in UNION {Spellings(s) : s \in KeyTexts}}

\* a key field left out, and the same field empty
MissingPairs ==
    {<<WithoutField(r, f), WithField(r, f, <<>>)>> :
        f \in KeyFields, r \in {RecMath, RecArtStamped}}

KeyInit ==
    /\ batch \in SpellingPairs \cup MissingPairs
    /\ pc = "key"
    /\ sheet = <<>>
    /\ wsExists = FALSE
    /\ run = "first"
    /\ clock = StartClock
    /\ rows = <<>>
    /\ imported_at = <<>>
    /\ existing = {}
    /\ to_add = <<>>
    /\ values = <<>>
    /\ deduped_rows = <<>>
    /\ skipped = 0
    /\ legacy_skipped = 0
    /\ writes = {}
    /\ summary = <<>>
    /\ failedAt = ""
    /\ firstSheet = <<>>
    /\ other = NoOther

\* the keys of the two records, collected in a set as get_existing_keys does
KeyBoth ==
    /\ pc = "key"
    /\ existing' = {key_from_row(batch[i]) : i \in 1..Len(batch)}
    /\ pc' = "keyed"
    /\ UNCHANGED << sheet, wsExists, run, clock, batch, rows, imported_at, to_add, values,
                    deduped_rows, skipped, legacy_skipped, writes, summary, failedAt,
                    firstSheet, other >>

KeyNext ==
    KeyBoth

SpecKey ==
    KeyInit /\ [][KeyNext]_vars

\* ------------------------------------------------------------ properties

\* the key the readers give row j of a sheet, under the sheet's own header
SheetRowKey(vals, j) ==
    key_from_row(RowObj(ColIdx(vals[1]), vals[j]))

\* the sheet row main appends for record r
MatrixRow(r) ==
    [j \in 1..Len(HEADERS) |-> DictGet(r, HEADERS[j])]

\* the rows the append of this run added to the sheet (read at pc = "dedupe",
\* where values still is what get_existing_keys read)
AppendedRows ==
    {sheet[j] : j \in (Len(values) + 1)..Len(sheet)}

NewKeys ==
    {key_from_row(rows[i]) : i \in 1..Len(rows)} \ existing

\* the worksheet had the canonical header row when it was last read
CanonicalRead ==
    values # <<>> /\ values[1] = HeaderRow(HEADERS)

\* row 1 holds every canonical column name, in some order
FullHeader(vals) ==
    vals # <<>> /\ Range(vals[1]) = Range(HeaderRow(HEADERS))

\* C1: a second run with the same batch leaves the sheet as the first run
\* left it and imports nothing (stated for the sheets whose row 1 names all
\* 14 columns, in whatever order).
C1_Idempotent ==
    (pc = "done" /\ run = "second" /\ FullHeader(firstSheet))
        => (sheet = firstSheet /\ summary.imported = 0)

\* C2: records of one batch that share a key not yet in the sheet are
\* collapsed by the filter: one row per new key is appended, and imported
\* counts each new key once (stated for a sheet with the canonical header and
\* for records that agree on Assignment and AssignedDate as well).
C2_BatchDuplicatesCollapsed ==
    /\ (pc = "dedupe" /\ CanonicalRead) =>
          \A i, j \in 1..Len(to_add) :
              ( /\ i < j
                /\ DictGet(to_add[i], "Assignment") = DictGet(to_add[j], "Assignment")
                /\ DictGet(to_add[i], "AssignedDate") = DictGet(to_add[j], "AssignedDate") )
              => key_from_row(to_add[i]) # key_from_row(to_add[j])
    /\ (pc = "done" /\ CanonicalRead
          /\ \A i, j \in 1..Len(rows) :
                DictGet(rows[i], "Assignment") = DictGet(rows[j], "Assignment"))
          => summary.imported = Cardinality(NewKeys)

\* the keys of the records rs, in order
RECURSIVE RecordKeys(_)
RecordKeys(rs) ==
    IF rs = <<>> THEN <<>> ELSE <<key_from_row(Head(rs))>> \o RecordKeys(Tail(rs))

\* with ks the keys of rows: no record with one of the keys has its row
\* among the appended ones
NoneAppendedOf(ks, keys, appended) ==
    \A i \in 1..Len(rows) :
        ks[i] \in keys => MatrixRow(rows[i]) \notin appended

\* with ks the keys of rows: records that agree on the key fields have one key
AgreeingHaveOneKey(ks) ==
    \A i, j \in 1..Len(rows) :
        (\A f \in {"Student", "Period", "Course", "DueDate"} :
              DictGet(rows[i], f) = DictGet(rows[j], f))
            => ks[i] = ks[j]

\* C3: a record whose key is the key of a row already in the sheet is not
\* appended and is counted as skipped, whatever its other fields hold; records
\* that agree on the key fields have the same key.
C3_ExistingKeyNeverAppended ==
    /\ pc = "dedupe" =>
          NoneAppendedOf(RecordKeys(rows), get_existing_keys(values), AppendedRows)
    /\ pc = "done" =>
          summary.skipped =
              Cardinality({i \in 1..Len(rows) : key_from_row(rows[i]) \in existing})
    /\ pc = "open" => AgreeingHaveOneKey(RecordKeys(rows))

\* a record with the key of a sheet row, but not equal to any sheet row, has
\* been filtered out
C3_Witness ==
    /\ pc = "dedupe"
    /\ Len(to_add) < Len(rows)
    /\ \E i \in 1..Len(rows) :
          /\ key_from_row(rows[i]) \in get_existing_keys(values)
          /\ \A j \in 2..Len(values) : values[j] # MatrixRow(rows[i])
          /\ \E j \in 2..Len(values) :
                /\ SheetRowKey(values, j) = key_from_row(rows[i])
                /\ Cell(ColIdx(values[1]), values[j], "Score") # rows[i]["Score"]

C5_RemovedCountsDiscarded ==
    (pc = "print" /\ CanonicalRead) =>
        legacy_skipped = (Len(values) - 1) - Cardinality(get_existing_keys(values))

\* C6: after a completed run row 1 of the sheet is the canonical header.
C6_HeaderCanonicalAfterRun ==
    pc = "done" => (sheet # <<>> /\ sheet[1] = HeaderRow(HEADERS))

\* C7: when a storage call of the de-dup pass fails, the sheet holds either
\* what the pass read or the complete compacted contents (stated for a sheet
\* with the canonical header and at least two data rows).
C7_CompactionAtomic ==
    (pc = "aborted" /\ failedAt \in {"clear", "update", "write"}
        /\ CanonicalRead /\ Len(values) > 2) =>
        \/ sheet = values
        \/ sheet = <<values[1]>> \o deduped_rows

\* C8: on a sheet with 0 or 1 data rows the de-dup pass returns 0 and issues
\* no clear and no write (stated for a sheet with the canonical header).
C8_DegenerateNoOp ==
    (pc = "print" /\ CanonicalRead /\ Len(values) <= 2)
        => (legacy_skipped = 0 /\ writes = {})

\* C9: records that agree on Student, Course and DueDate but differ in
\* Assignment or AssignedDate have different keys; when neither key is in the
\* sheet both are imported and both are in the sheet after the run.
C9_AssignmentInKey ==
    (pc = "done" /\ CanonicalRead) =>
        \A i, j \in 1..Len(rows) :
            ( /\ \A f \in {"Student", "Course", "DueDate"} :
                    DictGet(rows[i], f) = DictGet(rows[j], f)
              /\ \E f \in {"Assignment", "AssignedDate"} :
                    DictGet(rows[i], f) # DictGet(rows[j], f) )
            => /\ key_from_row(rows[i]) # key_from_row(rows[j])
               /\ {key_from_row(rows[i]), key_from_row(rows[j])} \subseteq NewKeys
                     => {MatrixRow(rows[i]), MatrixRow(rows[j])} \subseteq Range(sheet)

\* C10: the ImportedAt of every row the run appends is the timestamp the
\* importer took in this run (stated for a sheet with the canonical header).
C10_ImportedAtIsRunTimestamp ==
    (pc = "dedupe" /\ CanonicalRead) =>
        \A j \in (Len(values) + 1)..Len(sheet) : sheet[j][1] = imported_at

\* C11: a batch of two records with one key, imported into a sheet that holds
\* the canonical header only, leaves exactly one row for that key, and that
\* row is the first record of the batch, in whichever order the two come.
C11_FirstSeenWins ==
    (pc = "done" /\ CanonicalRead /\ existing = {} /\ Len(rows) = 2
        /\ key_from_row(rows[1]) = key_from_row(rows[2]))
        => /\ Len(sheet) = 2
           /\ sheet[2] = MatrixRow(rows[1])

\* the two records differ in one textual key field only, and there only in
\* letter case and in blanks at either end
SpeltAlike(a, b) ==
    /\ DOMAIN a = DOMAIN b
    /\ \E f \in TextKeyFields :
          /\ \A g \in (DOMAIN a) \ {f} : a[g] = b[g]
          /\ \E s \in KeyTexts : {a[f], b[f]} \subseteq Spellings(s)

\* C12: two records that differ only in letter case and in leading or
\* trailing blanks of a textual key field (Student, Period, Course) have the
\* same key, and a record that lacks a key field has the key of the record
\* with that field empty.
C12_KeyIgnoresCaseAndPadding ==
    pc = "keyed" =>
        /\ SpeltAlike(batch[1], batch[2]) => Cardinality(existing) = 1
        /\ DOMAIN batch[1] # DOMAIN batch[2] => Cardinality(existing) = 1

\* Student "Jo" and Student " jo " have been given one key
C12_Witness ==
    /\ pc = "keyed"
    /\ DictGet(batch[1], "Student") = TxtJo
    /\ DictGet(batch[2], "Student") = TxtJoLoose
    /\ Cardinality(existing) = 1

\* C13: a run that has ended, completed or aborted on a fatal error, has
\* printed the summary with the imported / skipped / removed counts.
C13_SummaryOnEveryOutcome ==
    pc \in {"done", "aborted"} =>
        /\ summary # <<>>
        /\ DOMAIN summary = {"imported", "skipped", "removed"}

\* the ImportedAt the pass reads in row j of vals
RowTs(vals, j) ==
    Cell(ColIdx(vals[1]), vals[j], "ImportedAt")

\* the data rows of vals with key k
KeyRows(vals, k) ==
    {j \in 2..Len(vals) : SheetRowKey(vals, j) = k}

\* row m has the greatest ImportedAt among the rows J, and is the earliest
\* of those that have it
NewestEarliest(vals, J, m) ==
    \A j \in J :
        /\ ~StrGreater(RowTs(vals, j), RowTs(vals, m))
        /\ RowTs(vals, j) = RowTs(vals, m) => m <= j

\* with ks and ts the keys and the ImportedAt values of the rows of vals:
\* kept holds one row for each key, and for the key of every row j it holds
\* a row m of that key such that no row of the key has a greater ImportedAt
\* and none with an equal ImportedAt comes before m
KeptNewestEarliest(vals, ks, ts, kept) ==
    /\ Len(kept) = Cardinality({ks[j] : j \in 2..Len(vals)})
    /\ \A j \in 2..Len(vals) :
          \E m \in 2..Len(vals) :
              /\ ks[m] = ks[j]
              /\ \E i \in 1..Len(kept) : kept[i] = vals[m]
              /\ \A i \in 2..Len(vals) :
                    ks[i] = ks[m] =>
                        /\ ~StrGreater(ts[i], ts[m])
                        /\ ts[i] = ts[m] => m <= i

\* the keys and the ImportedAt values the pass reads in the rows rs
RECURSIVE KeysOfRows(_, _)
KeysOfRows(idx, rs) ==
    IF rs = <<>> THEN <<>>
    ELSE <<key_from_row(RowObj(idx, Head(rs)))>> \o KeysOfRows(idx, Tail(rs))

RECURSIVE TsOfRows(_, _)
TsOfRows(idx, rs) ==
    IF rs = <<>> THEN <<>>
    ELSE <<Cell(idx, Head(rs), "ImportedAt")>> \o TsOfRows(idx, Tail(rs))

KeptNewestEarliestUnder(vals, idx, kept) ==
    KeptNewestEarliest(vals, KeysOfRows(idx, vals), TsOfRows(idx, vals), kept)

\* C14: for every key the row the de-dup pass keeps has an ImportedAt that is
\* greater than or equal to that of every row of the key, and among the rows
\* with the greatest ImportedAt it is the earliest in sheet order.
C14_MostRecentWins ==
    pc = "clear" => KeptNewestEarliestUnder(values, ColIdx(values[1]), deduped_rows)

\* the pass has chosen among three rows of one key: a later row with a
\* greater ImportedAt has replaced an earlier one, and of two different rows
\* that tie for the greatest ImportedAt the earlier is kept
C14_Witness ==
    /\ pc = "clear"
    /\ \E h, i, j \in 2..Len(values) :
          /\ h < i /\ i < j
          /\ SheetRowKey(values, h) = SheetRowKey(values, i)
          /\ SheetRowKey(values, i) = SheetRowKey(values, j)
          /\ StrGreater(RowTs(values, i), RowTs(values, h))
          /\ RowTs(values, i) = RowTs(values, j)
          /\ values[i] # values[j]
          /\ NewestEarliest(values, KeyRows(values, SheetRowKey(values, i)), i)
          /\ \E n \in 1..Len(deduped_rows) : deduped_rows[n] = values[i]

\* the keys for which both instances have appended a row
BothAppendedKeys ==
    IF pc \in PastAppend /\ other.pc \in PastAppend
    THEN {key_from_row(to_add[i]) : i \in 1..Len(to_add)}
            \cap {key_from_row(other.to_add[i]) : i \in 1..Len(other.to_add)}
    ELSE {}

\* the number of rows among rs to which the header index idx gives key k
RECURSIVE CountKey(_, _, _)
CountKey(idx, rs, k) ==
    IF rs = <<>> THEN 0
    ELSE (IF key_from_row(RowObj(idx, Head(rs))) = k THEN 1 ELSE 0)
            + CountKey(idx, Tail(rs), k)

\* the number of data rows with key k in sh, its row 1 being the canonical
\* header; -1 when row 1 is anything else
RowsWithKey(sh, k) ==
    IF sh # <<>> /\ sh[1] = HeaderRow(HEADERS)
    THEN CountKey(ColIdx(sh[1]), Tail(sh), k)
    ELSE -1

\* C15 as stated: when both instances have appended a row for one key, a
\* step after which the sheet no longer holds two rows of that key is the
\* clear of a de-dup pass that read the sheet after both appends.
C15_RemovedOnlyByLaterPass ==
    [][ \A k \in BothAppendedKeys :
            (RowsWithKey(sheet, k) >= 2 /\ RowsWithKey(sheet', k) < 2) =>
                \/ pc = "clear" /\ pc' = "update" /\ ~other.lateAppend
                \/ other.pc = "clear" /\ other'.pc = "update" /\ other.readBoth ]_vars

\* C15 (amended): two instances that read the existing keys from one sheet
\* state both append a row for a key new to it, and from the second append
\* on the sheet holds two rows or more of that key until a de-dup pass, of
\* either instance, clears the sheet.
C15_DuplicateStaysUntilClear ==
    \A k \in BothAppendedKeys :
        ("clear" \notin writes /\ "clear" \notin other.writes)
            => RowsWithKey(sheet, k) >= 2

\* both instances have read the header-only sheet, both have appended the
\* one record of the batch, and the sheet holds the two rows
C15_Witness ==
    /\ pc = "dedupe"
    /\ other.pc = "dedupe"
    /\ Len(batch) = 1
    /\ values = other.values
    /\ existing = {} /\ other.existing = {}
    /\ \E k \in BothAppendedKeys : RowsWithKey(sheet, k) = 2

====
